---- MODULE Spec2Model ----
(***************************************************************************)
(* Model of package illumina (biogo/illumina):                             *)
(*   - Parse / preCasava / casava : the read-identifier parser             *)
(*   - BinCompress / slowCompression : the quality binning                 *)
(*                                                                         *)
(* A Go string is a sequence of characters; a character is written as a   *)
(* one-character TLA+ string, and CodePoint gives its rune value.          *)
(***************************************************************************)
EXTENDS Integers, Sequences, FiniteSets, TLC

VARIABLES
    name,      \* r.Name() of the record handed to Parse
    desc,      \* r.Description() of the record handed to Parse
    m,         \* the Metadata returned by Parse
    err,       \* the error returned by Parse
    pc,        \* position of the call: "call" -> "done" (parser); see BinCompress
    shape,     \* dynamic type of the scorer handed to BinCompress
    scheme,    \* the Scheme argument c of BinCompress ("nil" or a table name)
    store,     \* the scorer's quality storage, positions Start .. End-1
    start,     \* s.Start()
    failAt,    \* positions at which the scorer's SetE reports an error
    i,         \* loop variable of slowCompression
    ret,       \* the error returned by BinCompress
    log,       \* accessor / mutator calls made on the scorer in the current call
    pre,       \* storage when the current BinCompress call started
    orig,      \* storage when the scorer was constructed
    after1,    \* storage when the first BinCompress call returned
    ncalls     \* number of BinCompress calls started so far

vars == <<name, desc, m, err, pc, shape, scheme, store, start, failAt, i, ret,
          log, pre, orig, after1, ncalls>>

parseVars == <<name, desc, m, err>>
binVars == <<shape, scheme, store, start, failAt, i, ret, log, pre, orig, after1, ncalls>>

----------------------------------------------------------------------------
(* Bounds of the model *)

\* number of surplus trailing fields an input identifier may carry
MaxExtra == 1
\* largest number of elements of a scorer built from the sample qualities
MaxLen == 3
\* number of BinCompress calls made on one scorer
MaxCalls == 2

----------------------------------------------------------------------------
(* Characters and Go's integer conversions *)

\* rune values of the characters the inputs are built from; "L/" stands for
\* U+0141, a rune above 255 whose low byte is 'A'
CodePoint ==
    [c \in {"0", "1", "2", "3", "4", "5", "6", "7", "8", "9", "+", "-", ":", "#", "/",
            "A", "C", "G", "T", "a", "c", "g", "t", "E", "F", "I", "N", "X", "Y",
            "x", "y", "L/"} |->
       CASE c = "0" -> 48 [] c = "1" -> 49 [] c = "2" -> 50 [] c = "3" -> 51
         [] c = "4" -> 52 [] c = "5" -> 53 [] c = "6" -> 54 [] c = "7" -> 55
         [] c = "8" -> 56 [] c = "9" -> 57 [] c = "+" -> 43 [] c = "-" -> 45
         [] c = ":" -> 58 [] c = "#" -> 35 [] c = "/" -> 47
         [] c = "A" -> 65 [] c = "C" -> 67 [] c = "G" -> 71 [] c = "T" -> 84
         [] c = "a" -> 97 [] c = "c" -> 99 [] c = "g" -> 103 [] c = "t" -> 116
         [] c = "E" -> 69 [] c = "F" -> 70 [] c = "I" -> 73 [] c = "N" -> 78
         [] c = "X" -> 88 [] c = "Y" -> 89 [] c = "x" -> 120 [] c = "y" -> 121
         [] c = "L/" -> 321]

\* int8(v): Go's truncating conversion of an int to 8 signed bits
Int8(v) == ((v + 128) % 256) - 128

\* alphabet.Letter(r): Letter is a byte, the conversion keeps the low 8 bits
Letter(r) == CodePoint[r] % 256

\* alphabet.DNA.IsValid: the letters of "acgt", case-insensitive
DNAIsValid(l) == l \in {97, 99, 103, 116, 65, 67, 71, 84}

----------------------------------------------------------------------------
(* Error values *)

Nil == [kind |-> "nil", msg |-> "", num |-> <<>>]
ErrBadIdentifer ==
    [kind |-> "errorString", msg |-> "illumina: unable to parse identifier", num |-> <<>>]
ErrBadTag ==
    [kind |-> "errorString", msg |-> "illumina: illegal multiplex tag", num |-> <<>>]
\* the *strconv.NumError strconv.Atoi returns for s
NumError(s) == [kind |-> "strconv.NumError", msg |-> "invalid syntax", num |-> s]
\* fmt.Errorf("illumina: illegal multiplex tag: %s", e): a fresh error value
TagErrorf(e) ==
    [kind |-> "fmt.Errorf", msg |-> "illumina: illegal multiplex tag: strconv.Atoi", num |-> e.num]

----------------------------------------------------------------------------
(* Metadata *)

Undefined == 0
PreCasava == 1
Casava == 2

\* Metadata{}: the zero value
ZeroMetadata ==
    [Type |-> Undefined, Instrument |-> <<>>, Run |-> 0, FlowCell |-> <<>>, Lane |-> 0,
     Tile |-> 0, Coordinate |-> [X |-> 0, Y |-> 0], Mate |-> 0, BadRead |-> FALSE,
     ControlBits |-> 0, Multiplex |-> [Index |-> 0, Tag |-> <<>>]]

----------------------------------------------------------------------------
(* strings.FieldsFunc, strconv.Atoi and the helpers built on them *)

RECURSIVE FieldsFrom(_, _, _, _)
FieldsFrom(s, sep, k, cur) ==
    IF k > Len(s)
    THEN (IF cur = <<>> THEN <<>> ELSE <<cur>>)
    ELSE IF s[k] \in sep
         THEN (IF cur = <<>> THEN <<>> ELSE <<cur>>) \o FieldsFrom(s, sep, k + 1, <<>>)
         ELSE FieldsFrom(s, sep, k + 1, Append(cur, s[k]))

\* strings.FieldsFunc(s, f): the maximal runs of non-separator characters;
\* an empty run is never a field
FieldsFunc(s, sep) == FieldsFrom(s, sep, 1, <<>>)

IsDigit(c) == CodePoint[c] >= 48 /\ CodePoint[c] <= 57

RECURSIVE Digits(_, _, _)
Digits(s, k, acc) ==
    IF k > Len(s) THEN acc ELSE Digits(s, k + 1, 10 * acc + (CodePoint[s[k]] - 48))

\* strconv.Atoi(s): an optional sign, then one or more decimal digits; the
\* value is 0 when the syntax is wrong.  (Fields here are too short to leave
\* the range of int.)
Atoi(s) ==
    LET signed == Len(s) > 0 /\ s[1] \in {"+", "-"}
        body   == IF signed THEN SubSeq(s, 2, Len(s)) ELSE s
        ok     == Len(body) > 0 /\ \A k \in 1..Len(body) : IsDigit(body[k])
        n      == Digits(body, 1, 0)
    IN  IF ok
        THEN [val |-> IF signed /\ s[1] = "-" THEN 0 - n ELSE n, err |-> Nil]
        ELSE [val |-> 0, err |-> NumError(s)]

\* mustAtoi(s): -1 for the empty string, panic(err) when Atoi fails; the
\* panic value is carried in .panic (Nil: no panic)
mustAtoi(s) ==
    IF Len(s) = 0 THEN [val |-> 0 - 1, panic |-> Nil]
    ELSE LET r == Atoi(s) IN [val |-> r.val, panic |-> r.err]

\* atob(s): -1 for the empty string, else int8 of Atoi's value, with its error
atob(s) ==
    IF Len(s) = 0 THEN [val |-> 0 - 1, err |-> Nil]
    ELSE LET r == Atoi(s) IN [val |-> Int8(r.val), err |-> r.err]

tagOk(tag) == \A k \in 1..Len(tag) : DNAIsValid(Letter(tag[k]))

preCasavaSep == {":", "#", "/"}
casavaSep == {":"}

\* the deferred function of preCasava / casava after a panic with value e:
\* err = e; m.Type = Undefined; cur is what m holds when the panic happens
Recovered(cur, e) == [m |-> [cur EXCEPT !.Type = Undefined], err |-> e]

\* the first panic among a sequence of mustAtoi results, Nil if none
RECURSIVE FirstPanic(_, _)
FirstPanic(rs, k) ==
    IF k > Len(rs) THEN Nil
    ELSE IF rs[k].panic # Nil THEN rs[k].panic ELSE FirstPanic(rs, k + 1)

----------------------------------------------------------------------------
(* preCasava *)

\* preCasavaLiteral with Run: -1 left out of the literal
preCasavaLiteralNoRun(f, lane, tile, x, y) ==
    [ZeroMetadata EXCEPT !.Type = PreCasava, !.Instrument = f[1],
       !.Lane = Int8(lane), !.Tile = tile, !.Coordinate = [X |-> x, Y |-> y]]

\* the composite literal m = Metadata{Type: PreCasava, ...} of preCasava;
\* FlowCell, Mate, BadRead, ControlBits and Multiplex keep their zero values
preCasavaLiteral(f, lane, tile, x, y) ==
    [ZeroMetadata EXCEPT !.Type = PreCasava, !.Instrument = f[1],
       !.Run = 0 - 1, !.Lane = Int8(lane), !.Tile = tile,
       !.Coordinate = [X |-> x, Y |-> y]]

preCasava(nm) ==
    LET f == FieldsFunc(nm, preCasavaSep) IN
    IF Len(f) < 6 THEN [m |-> ZeroMetadata, err |-> ErrBadIdentifer]
    ELSE
    LET lane == mustAtoi(f[2])
        tile == mustAtoi(f[3])
        x    == mustAtoi(f[4])
        y    == mustAtoi(f[5])
        p    == FirstPanic(<<lane, tile, x, y>>, 1)
        \* m = Metadata{...}: assigned only when every operand was evaluated
        m0   == preCasavaLiteral(f, lane.val, tile.val, x.val, y.val)
        ab   == atob(f[6])
        m1   == [m0 EXCEPT !.Multiplex.Index = ab.val]
        m2   == IF ab.err # Nil
                THEN [m1 EXCEPT !.Multiplex.Tag = f[6], !.Multiplex.Index = 0 - 1]
                ELSE m1
        mate == mustAtoi(f[7])
    IN  IF p # Nil THEN Recovered(ZeroMetadata, p)
        ELSE IF ab.err # Nil /\ ~tagOk(f[6]) THEN Recovered(m1, TagErrorf(ab.err))
        ELSE IF Len(f) = 7
             THEN IF mate.panic # Nil THEN Recovered(m2, mate.panic)
                  ELSE [m |-> [m2 EXCEPT !.Mate = Int8(mate.val)], err |-> Nil]
             ELSE [m |-> m2, err |-> Nil]

----------------------------------------------------------------------------
(* casava *)

\* casavaLiteral without the two "not valid" defaults (ControlBits: -1 and
\* Multiplex{Index: -1} left out of the literal)
casavaLiteralNoDefaults(nf, run, lane, tile, x, y) ==
    [ZeroMetadata EXCEPT !.Type = Casava, !.Instrument = nf[1],
       !.Run = run, !.FlowCell = nf[3], !.Lane = Int8(lane),
       !.Tile = tile, !.Coordinate = [X |-> x, Y |-> y]]

\* the composite literal m = Metadata{Type: Casava, ...} of casava
casavaLiteral(nf, run, lane, tile, x, y) ==
    [ZeroMetadata EXCEPT !.Type = Casava, !.Instrument = nf[1],
       !.Run = run, !.FlowCell = nf[3], !.Lane = Int8(lane),
       !.Tile = tile, !.Coordinate = [X |-> x, Y |-> y],
       !.ControlBits = 0 - 1, !.Multiplex = [Index |-> 0 - 1, Tag |-> <<>>]]

casava(nm, ds) ==
    LET nf == FieldsFunc(nm, casavaSep)
        df == FieldsFunc(ds, casavaSep)
    IN
    IF ~(Len(nf) = 7 /\ (Len(df) = 4 \/ ds = <<>>))
    THEN [m |-> ZeroMetadata, err |-> ErrBadIdentifer]
    ELSE IF Len(df) = 4 /\ ~tagOk(df[4])
    THEN [m |-> ZeroMetadata, err |-> ErrBadTag]
    ELSE
    LET run  == mustAtoi(nf[2])
        lane == mustAtoi(nf[4])
        tile == mustAtoi(nf[5])
        x    == mustAtoi(nf[6])
        y    == mustAtoi(nf[7])
        p    == FirstPanic(<<run, lane, tile, x, y>>, 1)
        m0   == casavaLiteral(nf, run.val, lane.val, tile.val, x.val, y.val)
        mate == mustAtoi(df[1])
        m1   == [m0 EXCEPT !.Mate = Int8(mate.val)]
        m2   == [m1 EXCEPT !.BadRead = (df[2] = <<"Y">> \/ df[2] = <<"y">>)]
        cb   == mustAtoi(df[3])
        m3   == [m2 EXCEPT !.ControlBits = cb.val, !.Multiplex.Tag = df[4]]
    IN  IF p # Nil THEN Recovered(ZeroMetadata, p)
        ELSE IF ds = <<>> THEN [m |-> m0, err |-> Nil]
        ELSE IF mate.panic # Nil THEN Recovered(m0, mate.panic)
        ELSE IF cb.panic # Nil THEN Recovered(m2, cb.panic)
        ELSE [m |-> m3, err |-> Nil]

HasHash(nm) == \E k \in 1..Len(nm) : nm[k] = "#"

\* Parse(r): the older convention when the name holds a '#', else the newer
Parse(nm, ds) == IF HasHash(nm) THEN preCasava(nm) ELSE casava(nm, ds)

----------------------------------------------------------------------------
(* The records handed to Parse *)

RECURSIVE Repeat(_, _)
Repeat(s, n) == IF n = 0 THEN <<>> ELSE s \o Repeat(s, n - 1)

\* names written in the older layout  instrument:lane:tile:x:y#multiplex/mate
OldNames ==
    { <<"I">> \o <<":">> \o lane \o <<":">> \o tile \o <<":">> \o <<"9">> \o <<":">> \o y
        \o <<"#">> \o mux \o tail \o Repeat(<<"/", "9">>, extra) :
        lane \in {<<"6">>, <<"3", "0", "0">>, <<"x">>, <<>>},
        tile \in {<<"7", "3">>, <<"x">>},
        y    \in {<<"1">>, <<"-", "1">>, <<>>},
        mux  \in {<<"0">>, <<"-", "5">>, <<"2", "0", "0">>, <<"A", "C">>, <<"A", "X">>,
                  <<>>},
        tail \in {<<>>, <<"/", "1">>, <<"/", "x">>, <<"/">>},
        extra \in 0..MaxExtra }
    \cup { <<"I", ":", "6", "#", "0">>, <<"#">>, <<"I", ":", "6", ":", "7", "#">> }

\* names written in the newer layout  instrument:run:flowcell:lane:tile:x:y
NewNames ==
    { <<"E">> \o <<":">> \o run \o <<":">> \o <<"F", "C">> \o <<":">> \o lane \o <<":">> \o tile
        \o <<":">> \o <<"1">> \o <<":">> \o y \o Repeat(<<":", "9">>, extra) :
        run  \in {<<"1", "3">>, <<"x">>, <<>>},
        lane \in {<<"2">>, <<"3", "0", "0">>},
        tile \in {<<"5">>, <<"x">>},
        y    \in {<<"9">>, <<>>},
        extra \in 0..MaxExtra }

\* descriptions written in the newer layout  mate:filter:controlbits:tag
Descs ==
    { mate \o <<":">> \o bad \o <<":">> \o cb \o <<":">> \o tag \o Repeat(<<":", "9">>, extra) :
        mate \in {<<"1">>, <<"x">>, <<>>},
        bad  \in {<<"Y">>, <<"y">>, <<"N">>, <<>>},
        cb   \in {<<"1", "8">>, <<"x">>, <<>>},
        tag  \in {<<"A", "C">>, <<"A", "X">>, <<"L/">>, <<>>},
        extra \in 0..MaxExtra }
    \cup { <<>>, <<":", ":", ":">> }

BinIdle ==
    /\ shape = "none" /\ scheme = "nil" /\ store = <<>> /\ start = 0 /\ failAt = {}
    /\ i = 0 /\ ret = Nil /\ log = <<>> /\ pre = <<>> /\ orig = <<>> /\ after1 = <<>>
    /\ ncalls = 0

ParseInit ==
    /\ \/ name \in OldNames /\ desc \in {<<>>, <<"1", ":", "Y", ":", "1", "8", ":", "A", "C">>}
       \/ name \in NewNames /\ desc \in Descs
    /\ m = ZeroMetadata
    /\ err = Nil
    /\ pc = "call"

\* m, err := Parse(r)
ParseCall ==
    /\ pc = "call"
    /\ LET r == Parse(name, desc) IN m' = r.m /\ err' = r.err
    /\ pc' = "done"
    /\ UNCHANGED <<name, desc>>
    /\ UNCHANGED binVars

Init == ParseInit /\ BinIdle
Next == ParseCall
Spec == Init /\ [][Next]_vars

----------------------------------------------------------------------------
(* Quality compression: the Scheme tables *)

Qphreds == 0..255

\* binOf with the first boundary off by one (i <= 10 for i < 10)
binOfOffByOne(k) ==
    CASE 2 <= k /\ k <= 10 -> 6
      [] 10 < k /\ k < 20 -> 15
      [] 20 <= k /\ k < 25 -> 22
      [] 25 <= k /\ k < 30 -> 27
      [] 30 <= k /\ k < 35 -> 33
      [] 35 <= k /\ k < 40 -> 37
      [] k >= 40 -> 40
      [] OTHER -> 0

\* binOf with a mistyped bin value (16 for 6)
binOfTypo(k) ==
    CASE 2 <= k /\ k < 10 -> 16
      [] 10 <= k /\ k < 20 -> 15
      [] 20 <= k /\ k < 25 -> 22
      [] 25 <= k /\ k < 30 -> 27
      [] 30 <= k /\ k < 35 -> 33
      [] 35 <= k /\ k < 40 -> 37
      [] k >= 40 -> 40
      [] OTHER -> 0

\* the switch of defaultCompression: the bin of quality k, for k >= 2
binOf(k) ==
    CASE 2 <= k /\ k < 10 -> 6
      [] 10 <= k /\ k < 20 -> 15
      [] 20 <= k /\ k < 25 -> 22
      [] 25 <= k /\ k < 30 -> 27
      [] 30 <= k /\ k < 35 -> 33
      [] 35 <= k /\ k < 40 -> 37
      [] k >= 40 -> 40
      [] OTHER -> 0

\* var cs [256]alphabet.Qphred, filled from index 2 on
defaultCompression == [k \in Qphreds |-> IF k >= 2 THEN binOf(k) ELSE 0]

DefaultCompression == defaultCompression

\* the tables a caller hands to BinCompress: nil, or a table of its own
Schemes == {"nil", "succ", "tens"}

\* two caller-built tables
CallerTable(c) ==
    IF c = "succ" THEN [v \in Qphreds |-> (v + 1) % 256]
    ELSE [v \in Qphreds |-> 10 * (v \div 10)]

\* if c == nil { c = DefaultCompression }
TableOf(c) == IF c = "nil" THEN DefaultCompression ELSE CallerTable(c)

----------------------------------------------------------------------------
(* The scorer.  A container of alphabet.QLetters or quality.Qphreds hands  *)
(* out its storage through Slice(); any other scorer is reached through    *)
(* EAt / SetE, which work on error probabilities.  A probability p is      *)
(* written as the integer -100 * log10(p), tenths of a Phred unit.         *)

\* alphabet.Ephred(p): Q = -10*log10(p) + 0.5, capped at 254, truncated
Ephred(e) == LET q == (e + 5) \div 10 IN IF q > 254 THEN 254 ELSE q

\* Qphred.ProbE(): 10^(-q/10)
ProbE(q) == 10 * q

\* the error SetE reports at position k
SetEError(k) == [kind |-> "SetE", msg |-> "scorer rejects the write", num |-> <<k>>]

End == start + Len(store)

\* storage index of position k
Ix(k) == k - start + 1

SeqsUpTo(S, n) == UNION { [1..k -> S] : k \in 0..n }

QSample == {1, 9, 41}
LSample == {"A", "N"}
ESample == {14, 95, 400}

BinInit ==
    /\ shape \in {"QLetters", "Qphreds", "otherSlice", "noSlice"}
    /\ scheme \in Schemes
    /\ \/ /\ shape = "Qphreds"
          /\ store \in SeqsUpTo(QSample, MaxLen) \cup { <<v>> : v \in Qphreds }
          /\ start = 0 /\ failAt = {}
       \/ /\ shape = "QLetters"
          /\ store \in SeqsUpTo([L : LSample, Q : QSample], MaxLen)
                         \cup { <<[L |-> "A", Q |-> v]>> : v \in Qphreds }
          /\ start = 0 /\ failAt = {}
       \/ /\ shape \in {"otherSlice", "noSlice"}
          /\ store \in SeqsUpTo(ESample, MaxLen)
          /\ start \in {0, 1}
          /\ failAt \in SUBSET (start .. start + Len(store) - 1)
    /\ orig = store /\ pre = store /\ after1 = <<>>
    /\ i = 0 /\ ret = Nil /\ log = <<>> /\ ncalls = 0
    /\ pc = "ready"

ParseIdle == name = <<>> /\ desc = <<>> /\ m = ZeroMetadata /\ err = Nil

\* what a return of BinCompress call number n records
Return(e, st, n) ==
    /\ ret' = e
    /\ pc' = "returned"
    /\ after1' = IF n = 1 THEN st ELSE after1

CanCall == pc \in {"ready", "returned"} /\ ncalls < MaxCalls

\* case alphabet.QLetters: for i, ql := range d { d[i].Q = c[ql.Q] }
QLettersCompressed(d, c) == [k \in 1..Len(d) |-> [d[k] EXCEPT !.Q = c[d[k].Q]]]

\* case quality.Qphreds: for i, q := range d { d[i] = c[q] }
QphredsCompressed(d, c) == [k \in 1..Len(d) |-> c[d[k]]]

BinCompressQLetters ==
    /\ CanCall /\ shape = "QLetters"
    /\ ncalls' = ncalls + 1
    /\ pre' = store /\ log' = <<>>
    /\ store' = QLettersCompressed(store, TableOf(scheme))
    /\ Return(Nil, store', ncalls + 1)
    /\ UNCHANGED <<shape, scheme, start, failAt, i, orig>>
    /\ UNCHANGED parseVars

BinCompressQphreds ==
    /\ CanCall /\ shape = "Qphreds"
    /\ ncalls' = ncalls + 1
    /\ pre' = store /\ log' = <<>>
    /\ store' = QphredsCompressed(store, TableOf(scheme))
    /\ Return(Nil, store', ncalls + 1)
    /\ UNCHANGED <<shape, scheme, start, failAt, i, orig>>
    /\ UNCHANGED parseVars

\* default: / no Slicer: return slowCompression(s, c); i := s.Start()
BinCompressSlow ==
    /\ CanCall /\ shape \in {"otherSlice", "noSlice"}
    /\ ncalls' = ncalls + 1
    /\ pre' = store /\ log' = <<>>
    /\ i' = start
    /\ pc' = "slow"
    /\ UNCHANGED <<shape, scheme, store, start, failAt, ret, orig, after1>>
    /\ UNCHANGED parseVars

\* the value slowCompression hands to SetE for the probability e
SlowValue(e, c) == ProbE(c[Ephred(e)])

\* one iteration: err := s.SetE(i, c[Ephred(s.EAt(i))].ProbE()), SetE succeeds
SlowStep ==
    /\ pc = "slow" /\ i < End /\ i \notin failAt
    /\ log' = log \o << <<"EAt", i>>, <<"SetE", i>> >>
    /\ store' = [store EXCEPT ![Ix(i)] = SlowValue(store[Ix(i)], TableOf(scheme))]
    /\ i' = i + 1
    /\ UNCHANGED <<shape, scheme, start, failAt, ret, pre, orig, after1, ncalls, pc>>
    /\ UNCHANGED parseVars

\* SlowFail with the error of SetE dropped: the loop goes on
SlowFailIgnored ==
    /\ pc = "slow" /\ i < End /\ i \in failAt
    /\ log' = log \o << <<"EAt", i>>, <<"SetE", i>> >>
    /\ i' = i + 1
    /\ UNCHANGED <<shape, scheme, store, start, failAt, ret, pre, orig, after1, ncalls, pc>>
    /\ UNCHANGED parseVars

\* one iteration in which SetE reports an error: if err != nil { return err }
SlowFail ==
    /\ pc = "slow" /\ i < End /\ i \in failAt
    /\ log' = log \o << <<"EAt", i>>, <<"SetE", i>> >>
    /\ Return(SetEError(i), store, ncalls)
    /\ UNCHANGED <<shape, scheme, store, start, failAt, i, pre, orig, ncalls>>
    /\ UNCHANGED parseVars

\* the loop condition i < s.End() fails: return nil
SlowReturn ==
    /\ pc = "slow" /\ i >= End
    /\ Return(Nil, store, ncalls)
    /\ UNCHANGED <<shape, scheme, store, start, failAt, i, log, pre, orig, ncalls>>
    /\ UNCHANGED parseVars

InitBin == BinInit /\ ParseIdle
NextBin ==
    \/ BinCompressQLetters
    \/ BinCompressQphreds
    \/ BinCompressSlow
    \/ SlowStep
    \/ SlowFail
    \/ SlowReturn
SpecBin == InitBin /\ [][NextBin]_vars

----------------------------------------------------------------------------
(* Vocabulary of the properties of Parse *)

Done == pc = "done"
Older == HasHash(name)
F == FieldsFunc(name, preCasavaSep)
NF == FieldsFunc(name, casavaSep)
DF == FieldsFunc(desc, casavaSep)

\* s is written as a decimal integer
Numeric(s) == Atoi(s).err = Nil
\* s is empty or a decimal integer
OptNumeric(s) == s = <<>> \/ Numeric(s)
\* every character of s is one of the four bases, in either case
AllBases(s) == \A k \in 1..Len(s) : s[k] \in {"A", "C", "G", "T", "a", "c", "g", "t"}

\* the fields of s between separators, empty ones kept
RECURSIVE SplitFrom(_, _, _, _)
SplitFrom(s, sep, k, cur) ==
    IF k > Len(s) THEN <<cur>>
    ELSE IF s[k] \in sep THEN <<cur>> \o SplitFrom(s, sep, k + 1, <<>>)
    ELSE SplitFrom(s, sep, k + 1, Append(cur, s[k]))
Split(s, sep) == SplitFrom(s, sep, 1, <<>>)

\* the value an integer field stands for: -1 when empty
OptValue(s) == IF s = <<>> THEN 0 - 1 ELSE Atoi(s).val

\* C1: whenever Parse returns an error, the Metadata it returns is the zero
\* value (Type Undefined, every other field zero).
C1_FailureReturnsZeroMetadata == (Done /\ err # Nil) => m = ZeroMetadata

\* the multiplex field of an older-convention name is acceptable
C2_OlderTagFine == Numeric(F[6]) \/ AllBases(F[6])
\* an integer field other than the older multiplex field is not a number,
\* in an identifier that is otherwise well formed
C2_HasBadInteger ==
    IF Older
    THEN /\ Len(F) >= 6
         /\ C2_OlderTagFine
         /\ \/ \E k \in 2..5 : ~Numeric(F[k])
            \/ Len(F) = 7 /\ ~Numeric(F[7])
    ELSE /\ Len(NF) = 7
         /\ desc = <<>> \/ (Len(DF) = 4 /\ AllBases(DF[4]))
         /\ \/ \E k \in {2, 4, 5, 6, 7} : ~Numeric(NF[k])
            \/ Len(DF) = 4 /\ (~Numeric(DF[1]) \/ ~Numeric(DF[3]))

\* C2: a non-numeric integer field makes Parse fail with the ErrBadIdentifer
\* error value, never with a raw numeric-parse error.
C2_BadIntegerGivesErrBadIdentifer == (Done /\ C2_HasBadInteger) => err = ErrBadIdentifer

\* the multiplex tag holds a character that is no base, in an identifier that
\* is otherwise well formed
C3_HasBadTag ==
    IF Older
    THEN /\ Len(F) >= 6
         /\ \A k \in 2..5 : Numeric(F[k])
         /\ ~Numeric(F[6]) /\ ~AllBases(F[6])
    ELSE Len(NF) = 7 /\ Len(DF) = 4 /\ ~AllBases(DF[4])

\* C3: in both conventions a multiplex tag with a character outside the DNA
\* alphabet makes Parse fail with the ErrBadTag error value.
C3_BadTagGivesErrBadTag == (Done /\ C3_HasBadTag) => err = ErrBadTag

C5_NewerEmptyField ==
    LET d == Split(desc, casavaSep) IN
    /\ ~Older
    /\ Len(NF) = 7 /\ Len(Split(name, casavaSep)) = 7
    /\ \A k \in {2, 4, 5, 6, 7} : Numeric(NF[k])
    /\ Len(d) = 4
    /\ OptNumeric(d[1]) /\ OptNumeric(d[3])
    /\ d[1] = <<>> \/ d[3] = <<>>
    /\ d[2] # <<>> /\ d[4] # <<>> /\ AllBases(d[4])

\* an older-convention name of six or seven fields, one of whose integer
\* fields is empty
C5_OlderEmptyField ==
    LET s == Split(name, preCasavaSep) IN
    /\ Older
    /\ Len(s) \in {6, 7}
    /\ s[1] # <<>>
    /\ \A k \in 2..5 : OptNumeric(s[k])
    /\ OptNumeric(s[6]) \/ AllBases(s[6])
    /\ Len(s) = 7 => OptNumeric(s[7])
    /\ \/ \E k \in 2..6 : s[k] = <<>>
       \/ Len(s) = 7 /\ s[7] = <<>>

\* C5: an empty integer field is read as -1 and the identifier still parses,
\* the other fields staying at their positions.
C5_EmptyFieldIsMinusOne ==
    /\ (Done /\ C5_NewerEmptyField) =>
          LET d == Split(desc, casavaSep) IN
          /\ err = Nil
          /\ m.Mate = Int8(OptValue(d[1]))
          /\ m.ControlBits = OptValue(d[3])
    /\ (Done /\ C5_OlderEmptyField) =>
          LET s == Split(name, preCasavaSep) IN
          /\ err = Nil
          /\ m.Lane = Int8(OptValue(s[2]))
          /\ m.Tile = OptValue(s[3])
          /\ m.Coordinate = [X |-> OptValue(s[4]), Y |-> OptValue(s[5])]
          /\ s[6] = <<>> => m.Multiplex.Index = 0 - 1
          /\ Len(s) = 7 => m.Mate = Int8(OptValue(s[7]))

\* a newer-convention name: no '#', seven fields, numeric run, lane, tile, x, y
C6_NewerName == ~Older /\ Len(NF) = 7 /\ \A k \in {2, 4, 5, 6, 7} : Numeric(NF[k])
\* a well-formed description: four fields, numeric mate and control bits, a
\* tag made of bases
C6_GoodDesc == Len(DF) = 4 /\ Numeric(DF[1]) /\ Numeric(DF[3]) /\ AllBases(DF[4])

C10_ExactlyOneOfIndexAndTag ==
    (Done /\ err = Nil) =>
        /\ ~(m.Multiplex.Index >= 0 /\ m.Multiplex.Tag # <<>>)
        /\ Older =>
             /\ (m.Multiplex.Index >= 0) # (m.Multiplex.Tag # <<>>)
             /\ Numeric(F[6]) =>
                  m.Multiplex.Index = Atoi(F[6]).val /\ m.Multiplex.Tag = <<>>
             /\ (~Numeric(F[6]) /\ AllBases(F[6])) =>
                  m.Multiplex.Index = 0 - 1 /\ m.Multiplex.Tag = F[6]

----------------------------------------------------------------------------
(* Vocabulary of the properties of BinCompress *)

Returned == pc = "returned"
Direct == shape \in {"QLetters", "Qphreds"}
Generic == shape \in {"otherSlice", "noSlice"}

\* the quality held at storage index k of a direct-storage container d
QualityAt(d, k) == IF shape = "QLetters" THEN d[k].Q ELSE d[k]

\* the documented bins of the default table
Bucket(v) ==
    CASE v \in 0..1 -> 0
      [] v \in 2..9 -> 6
      [] v \in 10..19 -> 15
      [] v \in 20..24 -> 22
      [] v \in 25..29 -> 27
      [] v \in 30..34 -> 33
      [] v \in 35..39 -> 37
      [] v \in 40..255 -> 40

\* C7: with a nil scheme BinCompress replaces every quality of a raw-quality
\* or letter+quality container by its documented bin, keeps the length and
\* the letters, and returns no error.
C7_DefaultTableBuckets ==
    (Returned /\ Direct /\ scheme = "nil" /\ ncalls = 1) =>
        /\ ret = Nil
        /\ Len(store) = Len(orig)
        /\ \A k \in 1..Len(orig) : QualityAt(store, k) = Bucket(QualityAt(orig, k))
        /\ shape = "QLetters" => \A k \in 1..Len(orig) : store[k].L = orig[k].L

\* a letter+quality container holding (N, 9), (A, 41) has been compressed with
\* the default table
C7_Witness ==
    /\ Returned /\ ncalls = 1 /\ scheme = "nil" /\ shape = "QLetters"
    /\ orig = <<[L |-> "N", Q |-> 9], [L |-> "A", Q |-> 41]>>
    /\ store = <<[L |-> "N", Q |-> 6], [L |-> "A", Q |-> 40]>>

\* every output of table t is a fixed point of t
FixedPoints(t) == \A v \in Qphreds : t[t[v]] = t[v]

\* C8 as stated: whatever the table, the default one or a caller's, a second
\* BinCompress leaves the values the first one left, the outputs of the table
\* being fixed points of it.
C8_TwiceIsOnceForAnyTable ==
    (Returned /\ ncalls >= 2) => (store = after1 /\ FixedPoints(TableOf(scheme)))

\* C8 amended: the default table has only fixed points as outputs, and with
\* any table that has, a second BinCompress leaves the values the first one
\* left.
C8_TwiceIsOnceForFixedPointTable ==
    /\ scheme = "nil" => FixedPoints(TableOf(scheme))
    /\ (Returned /\ ncalls >= 2 /\ FixedPoints(TableOf(scheme))) => store = after1

\* a raw-quality container holding 9, 41 has been compressed twice with the
\* default table
C8_Witness ==
    /\ Returned /\ ncalls = 2 /\ scheme = "nil" /\ shape = "Qphreds"
    /\ orig = <<9, 41>> /\ after1 = <<6, 40>> /\ store = <<6, 40>>

\* the calls slowCompression makes for the first n positions, in order
CallsFor(n) ==
    [j \in 1..(2 * n) |->
        IF j % 2 = 1 THEN <<"EAt", start + ((j - 1) \div 2)>>
        ELSE <<"SetE", start + ((j - 2) \div 2)>>]

\* the first position at which SetE fails
FirstFail == CHOOSE k \in failAt : \A j \in failAt : k <= j

\* position k holds the binned value of what it held when the call started
Binned(k) == store[Ix(k)] = ProbE(TableOf(scheme)[Ephred(pre[Ix(k)])])

\* C9: on the generic path the positions are handled in increasing order; at
\* the first error of SetE, at position k, BinCompress returns that error,
\* calls nothing for a position > k, leaves the positions > k as they were
\* and the positions < k binned; with no error every position of
\* [Start, End) is rewritten exactly once and nil is returned.
C9_GenericPathAbortsAtFirstError ==
    /\ (Generic /\ pc = "slow") =>
          /\ log = CallsFor(i - start)
          /\ \A k \in start..(End - 1) : IF k < i THEN Binned(k)
                                          ELSE store[Ix(k)] = pre[Ix(k)]
    /\ (Generic /\ Returned /\ failAt = {}) =>
          /\ ret = Nil
          /\ log = CallsFor(Len(store))
          /\ \A k \in start..(End - 1) : Binned(k)
    /\ (Generic /\ Returned /\ failAt # {}) =>
          /\ ret = SetEError(FirstFail)
          /\ log = CallsFor(FirstFail - start + 1)
          /\ \A k \in start..(End - 1) :
                /\ k < FirstFail => Binned(k)
                /\ k > FirstFail => store[Ix(k)] = pre[Ix(k)]

\* a generic scorer of three positions whose SetE fails at the middle one:
\* the first position is binned, the last one untouched, the error returned
C9_Witness ==
    /\ Generic /\ Returned /\ ncalls = 1 /\ scheme = "nil"
    /\ Len(store) = 3 /\ failAt = {start + 1}
    /\ pre = <<95, 14, 400>> /\ store = <<150, 14, 400>>
    /\ ret = SetEError(start + 1)
    /\ log = << <<"EAt", start>>, <<"SetE", start>>, <<"EAt", start + 1>>, <<"SetE", start + 1>> >>

====
